---- MODULE Spec2Model ----
(***************************************************************************)
(* Command-buffer lifecycle of the Vulkan backend:                         *)
(* CmdBufferVulkan, CmdBufferPoolVulkan and CmdBufferManagerVulkan of      *)
(* Source/Engine/GraphicsDevice/Vulkan/CmdBufferVulkan.cpp.                *)
(*                                                                         *)
(* A failed ASSERT is fatal: the handler stops at the assertion, the       *)
(* mutations made before it stay, `fault` names the assertion and no       *)
(* further operation runs.  The model is of a build with                   *)
(* GPU_ALLOW_PROFILE_EVENTS and VULKAN_USE_DESCRIPTOR_POOL_MANAGER on.     *)
(***************************************************************************)
EXTENDS Integers, Sequences, FiniteSets

\* ---------------------------------------------------------------- bounds
MaxBuffers == 2       \* Pool.Create is not called beyond this pool size
MaxEvents == 2        \* |_eventsBegin| stays within this
MaxFenceCount == 1    \* a fence is not signaled once FenceSignaledCounter is this
MaxWait == 2          \* AddWaitSemaphore is not called on a longer WaitFlags

Semaphores == {"s1", "s2"}
StageFlags == {"TOP"}
Queries == {"q1", "q2"}
NoSemaphore == "null"

VARIABLES
    CmdBuffers,          \* Pool.CmdBuffers: the buffers in allocation order
    ActiveCmdBuffer,     \* index into CmdBuffers, 0 for nullptr
    QueriesInProgress,   \* the manager's array of timer queries
    interrupted,         \* queries that got Interrupt() and no Resume() since
    hasDebugUtils,       \* vkCmdBegin/EndDebugUtilsLabelEXT are loaded
    fault,               \* "none", or the ASSERT that failed
    last                 \* the last operation: its name, arguments and call log

vars == <<CmdBuffers, ActiveCmdBuffer, QueriesInProgress, interrupted,
          hasDebugUtils, fault, last>>

\* ------------------------------------------------------------- helpers
Range(s) == {s[i] : i \in 1..Len(s)}

Contains(s, x) == x \in Range(s)

RECURSIVE RemoveFirst(_, _)
RemoveFirst(s, x) ==
    IF s = <<>> THEN <<>>
    ELSE IF Head(s) = x THEN Tail(s)
    ELSE <<Head(s)>> \o RemoveFirst(Tail(s), x)

Ok(cb) == [cb |-> cb, fault |-> "none"]

Fail(cb, what) == [cb |-> cb, fault |-> what]

Call(fn, i, pre, post) == [fn |-> fn, buf |-> i, pre |-> pre, post |-> post]

\* ------------------------------------------------------ CmdBufferVulkan
\* CmdBufferVulkan::CmdBufferVulkan; the fence comes unsignaled from AllocateFence.
\* poolSet is CurrentDescriptorPoolSetContainer != nullptr.  The last three fields
\* tally calls made for the buffer: AcquirePoolSetContainer, ReleasePoolSet and
\* Queue->Submit.
NewCmdBuffer ==
    [state |-> "ReadyForBegin",
     fence |-> FALSE,
     FenceSignaledCounter |-> 0,
     SubmittedFenceCounter |-> 0,
     WaitFlags |-> <<>>,
     WaitSemaphores |-> <<>>,
     SubmittedWaitSemaphores |-> <<>>,
     eventsBegin |-> 0,
     poolSet |-> FALSE,
     acquired |-> 0,
     released |-> 0,
     submissions |-> 0]

IsInsideRenderPass(cb) == cb.state = "IsInsideRenderPass"

IsOutsideRenderPass(cb) == cb.state = "IsInsideBegin"

HasBegun(cb) == cb.state \in {"IsInsideBegin", "IsInsideRenderPass"}

IsSubmitted(cb) == cb.state = "Submitted"

\* CmdBufferVulkan::AddWaitSemaphore: the flags are added before the assertion
AddWaitSemaphore(cb, waitFlags, waitSemaphore) ==
    LET c1 == [cb EXCEPT !.WaitFlags = Append(@, waitFlags)]
    IN  IF Contains(c1.WaitSemaphores, waitSemaphore)
        THEN Fail(c1, "AddWaitSemaphore")
        ELSE Ok([c1 EXCEPT !.WaitSemaphores = Append(@, waitSemaphore)])

\* CmdBufferVulkan::AcquirePoolSet
AcquirePoolSet(cb) ==
    IF cb.poolSet THEN Fail(cb, "AcquirePoolSet")
    ELSE Ok([cb EXCEPT !.poolSet = TRUE, !.acquired = @ + 1])

\* CmdBufferVulkan::Begin
Begin(cb) ==
    IF cb.state # "ReadyForBegin" THEN Fail(cb, "Begin")
    ELSE LET a == IF cb.poolSet THEN Ok(cb) ELSE AcquirePoolSet(cb)
         IN  IF a.fault # "none" THEN a
             ELSE Ok([a.cb EXCEPT !.state = "IsInsideBegin", !.eventsBegin = 0])

\* `while (_eventsBegin--)`: the value _eventsBegin is left with.  Each test reads
\* the counter and then decrements it, the test that ends the loop included.  Begin
\* resets the counter and EndEvent stops at 0, so End never finds it negative; a
\* negative 32-bit counter would run down through its wrap to the same end.
RECURSIVE EndEventsLoop(_)
EndEventsLoop(n) ==
    IF n = 0 THEN n - 1
    ELSE IF n > 0 THEN EndEventsLoop(n - 1)
    ELSE -1

\* End that rejects only a buffer inside a render pass.
EndUnlessInsideRenderPass(cb) ==
    IF IsInsideRenderPass(cb) THEN Fail(cb, "End")
    ELSE Ok([cb EXCEPT !.eventsBegin = EndEventsLoop(@), !.state = "HasEnded"])

\* CmdBufferVulkan::End
End(cb) ==
    IF ~IsOutsideRenderPass(cb) THEN Fail(cb, "End")
    ELSE Ok([cb EXCEPT !.eventsBegin = EndEventsLoop(@), !.state = "HasEnded"])

\* CmdBufferVulkan::BeginRenderPass
BeginRenderPass(cb) ==
    IF ~IsOutsideRenderPass(cb) THEN Fail(cb, "BeginRenderPass")
    ELSE Ok([cb EXCEPT !.state = "IsInsideRenderPass"])

\* CmdBufferVulkan::EndRenderPass
EndRenderPass(cb) ==
    IF ~IsInsideRenderPass(cb) THEN Fail(cb, "EndRenderPass")
    ELSE Ok([cb EXCEPT !.state = "IsInsideBegin"])

\* CmdBufferVulkan::BeginEvent
BeginEvent(cb, supported) ==
    IF ~supported THEN cb
    ELSE [cb EXCEPT !.eventsBegin = @ + 1]

\* CmdBufferVulkan::EndEvent
EndEvent(cb, supported) ==
    IF cb.eventsBegin = 0 \/ ~supported THEN cb
    ELSE [cb EXCEPT !.eventsBegin = @ - 1]

\* CmdBufferVulkan::RefreshFenceStatus
RefreshFenceStatusKeepsWaits(cb) ==
    IF cb.state = "Submitted"
    THEN IF cb.fence
         THEN Ok([cb EXCEPT !.state = "ReadyForBegin",
                            !.fence = FALSE,
                            !.FenceSignaledCounter = @ + 1,
                            !.poolSet = FALSE,
                            !.released = IF cb.poolSet THEN @ + 1 ELSE @])
         ELSE Ok(cb)
    ELSE IF cb.fence THEN Fail(cb, "RefreshFenceStatus") ELSE Ok(cb)

RefreshFenceStatusIgnoringFence(cb) ==
    IF cb.state = "Submitted"
    THEN Ok([cb EXCEPT !.state = "ReadyForBegin",
                       !.SubmittedWaitSemaphores = <<>>,
                       !.fence = FALSE,
                       !.FenceSignaledCounter = @ + 1,
                       !.poolSet = FALSE,
                       !.released = IF cb.poolSet THEN @ + 1 ELSE @])
    ELSE IF cb.fence THEN Fail(cb, "RefreshFenceStatus") ELSE Ok(cb)

\* RefreshFenceStatus without the release of the descriptor pool set.
RefreshFenceStatusKeepsPoolSet(cb) ==
    IF cb.state = "Submitted"
    THEN IF cb.fence
         THEN Ok([cb EXCEPT !.state = "ReadyForBegin",
                            !.SubmittedWaitSemaphores = <<>>,
                            !.fence = FALSE,
                            !.FenceSignaledCounter = @ + 1])
         ELSE Ok(cb)
    ELSE IF cb.fence THEN Fail(cb, "RefreshFenceStatus") ELSE Ok(cb)

\* RefreshFenceStatus with the release placed after the fence test instead of
\* inside it: a Submitted buffer gives its set back at every refresh.
RefreshFenceStatusReleasesEarly(cb) ==
    IF cb.state = "Submitted"
    THEN LET c1 == [cb EXCEPT !.poolSet = FALSE,
                              !.released = IF cb.poolSet THEN @ + 1 ELSE @]
         IN  IF cb.fence
             THEN Ok([c1 EXCEPT !.state = "ReadyForBegin",
                                !.SubmittedWaitSemaphores = <<>>,
                                !.fence = FALSE,
                                !.FenceSignaledCounter = @ + 1])
             ELSE Ok(c1)
    ELSE IF cb.fence THEN Fail(cb, "RefreshFenceStatus") ELSE Ok(cb)

\* RefreshFenceStatus without ResetFence.
RefreshFenceStatusKeepsFence(cb) ==
    IF cb.state = "Submitted"
    THEN IF cb.fence
         THEN Ok([cb EXCEPT !.state = "ReadyForBegin",
                            !.SubmittedWaitSemaphores = <<>>,
                            !.FenceSignaledCounter = @ + 1,
                            !.poolSet = FALSE,
                            !.released = IF cb.poolSet THEN @ + 1 ELSE @])
         ELSE Ok(cb)
    ELSE IF cb.fence THEN Fail(cb, "RefreshFenceStatus") ELSE Ok(cb)

\* RefreshFenceStatus with FenceSignaledCounter++ placed after the fence test
\* instead of inside it.
RefreshFenceStatusCountsEveryRefresh(cb) ==
    IF cb.state = "Submitted"
    THEN LET c1 == [cb EXCEPT !.FenceSignaledCounter = @ + 1]
         IN  IF cb.fence
             THEN Ok([c1 EXCEPT !.state = "ReadyForBegin",
                                !.SubmittedWaitSemaphores = <<>>,
                                !.fence = FALSE,
                                !.poolSet = FALSE,
                                !.released = IF cb.poolSet THEN @ + 1 ELSE @])
             ELSE Ok(c1)
    ELSE IF cb.fence THEN Fail(cb, "RefreshFenceStatus") ELSE Ok(cb)

RefreshFenceStatus(cb) ==
    IF cb.state = "Submitted"
    THEN IF cb.fence
         THEN Ok([cb EXCEPT !.state = "ReadyForBegin",
                            !.SubmittedWaitSemaphores = <<>>,
                            !.fence = FALSE,
                            !.FenceSignaledCounter = @ + 1,
                            !.poolSet = FALSE,
                            !.released = IF cb.poolSet THEN @ + 1 ELSE @])
         ELSE Ok(cb)
    ELSE IF cb.fence THEN Fail(cb, "RefreshFenceStatus") ELSE Ok(cb)

\* QueueVulkan::Submit, as far as it writes the buffer: the buffer is marked
\* Submitted, its wait semaphores become the submitted ones and its wait lists
\* are cleared, and the fence generation it waits for is noted.
QueueSubmit(cb, signalSemaphore) ==
    [cb EXCEPT !.state = "Submitted",
               !.SubmittedWaitSemaphores = cb.WaitSemaphores,
               !.WaitFlags = <<>>,
               !.WaitSemaphores = <<>>,
               !.SubmittedFenceCounter = cb.FenceSignaledCounter]

\* ------------------------------------------------- CmdBufferManagerVulkan
\* What a handler leaves: the pool, the active buffer, the queries told to
\* Interrupt or Resume, the failed assertion and the calls made on buffers.
Outcome(bufs, active, paused, f, calls) ==
    [bufs |-> bufs, active |-> active, paused |-> paused, fault |-> f, calls |-> calls]

\* CmdBufferPoolVulkan::Create
PoolCreate(bufs) == Append(bufs, NewCmdBuffer)

\* SubmitActiveCmdBuffer with the Interrupt loop ahead of the state test.
SubmitActiveInterruptsFirst(bufs, active, queries, paused, signalSemaphore) ==
    IF active = 0
    THEN Outcome(bufs, active, paused, "SubmitActiveCmdBuffer", <<>>)
    ELSE LET c0 == bufs[active]
             p2 == paused \cup Range(queries)
             ki == [q \in 1..Len(queries) |-> Call("Interrupt", active, c0, c0)]
         IN  IF ~IsSubmitted(c0) /\ HasBegun(c0)
             THEN LET r1 == IF IsInsideRenderPass(c0) THEN EndRenderPass(c0) ELSE Ok(c0)
                      k1 == IF IsInsideRenderPass(c0)
                            THEN ki \o <<Call("EndRenderPass", active, c0, r1.cb)>> ELSE ki
                      r2 == End(r1.cb)
                      k2 == k1 \o <<Call("End", active, r1.cb, r2.cb)>>
                      c3 == [QueueSubmit(r2.cb, signalSemaphore)
                                EXCEPT !.submissions = @ + 1]
                      k3 == k2 \o <<Call("Submit", active, r2.cb, c3)>>
                  IN  IF r1.fault # "none"
                      THEN Outcome([bufs EXCEPT ![active] = r1.cb], active, p2, r1.fault, k1)
                      ELSE IF r2.fault # "none"
                      THEN Outcome([bufs EXCEPT ![active] = r2.cb], active, p2, r2.fault, k2)
                      ELSE Outcome([bufs EXCEPT ![active] = c3], 0, p2, "none", k3)
             ELSE Outcome(bufs, 0, p2, "none", ki)

\* CmdBufferManagerVulkan::SubmitActiveCmdBuffer.  The log holds one Interrupt
\* entry for each query in progress that the loop at lines 264-267 interrupts.
SubmitActive(bufs, active, queries, paused, signalSemaphore) ==
    IF active = 0
    THEN Outcome(bufs, active, paused, "SubmitActiveCmdBuffer", <<>>)
    ELSE LET c0 == bufs[active]
         IN  IF ~IsSubmitted(c0) /\ HasBegun(c0)
             THEN LET r1 == IF IsInsideRenderPass(c0) THEN EndRenderPass(c0) ELSE Ok(c0)
                      k1 == IF IsInsideRenderPass(c0)
                            THEN <<Call("EndRenderPass", active, c0, r1.cb)>> ELSE <<>>
                      p2 == paused \cup Range(queries)
                      ki == k1 \o [q \in 1..Len(queries) |->
                                      Call("Interrupt", active, r1.cb, r1.cb)]
                      r2 == End(r1.cb)
                      k2 == ki \o <<Call("End", active, r1.cb, r2.cb)>>
                      c3 == [QueueSubmit(r2.cb, signalSemaphore)
                                EXCEPT !.submissions = @ + 1]
                      k3 == k2 \o <<Call("Submit", active, r2.cb, c3)>>
                  IN  IF r1.fault # "none"
                      THEN Outcome([bufs EXCEPT ![active] = r1.cb], active, paused, r1.fault, k1)
                      ELSE IF r2.fault # "none"
                      THEN Outcome([bufs EXCEPT ![active] = r2.cb], active, p2, r2.fault, k2)
                      ELSE Outcome([bufs EXCEPT ![active] = c3], 0, p2, "none", k3)
             ELSE Outcome(bufs, 0, paused, "none", <<>>)

\* PrepareForNewActiveCommandBuffer, after the scan found nothing to reuse: a
\* new buffer is created and begun, and the queries in progress are resumed.
CreateAndBeginKeepsActive(bufs, active, queries, paused, calls) ==
    LET grown == PoolCreate(bufs)
        n == Len(grown)
        b == Begin(grown[n])
    IN  [bufs |-> [grown EXCEPT ![n] = b.cb], active |-> active,
         paused |-> paused \ Range(queries), fault |-> b.fault,
         calls |-> calls \o <<Call("Begin", n, grown[n], b.cb)>>]

CreateAndBegin(bufs, active, queries, paused, calls) ==
    LET grown == PoolCreate(bufs)
        n == Len(grown)
        b == Begin(grown[n])
        k == calls \o <<Call("Begin", n, grown[n], b.cb)>>
    IN  IF b.fault # "none"
        THEN Outcome([grown EXCEPT ![n] = b.cb], n, paused, b.fault, k)
        ELSE Outcome([grown EXCEPT ![n] = b.cb], n, paused \ Range(queries), "none", k)

\* PrepareForNewActiveCommandBuffer, the scan from buffer i on; `calls` are the
\* calls made on the buffers scanned before it.  A buffer found ReadyForBegin is
\* begun and the handler returns there.
RECURSIVE PrepareScan(_, _, _, _, _, _)
PrepareScan(bufs, active, queries, paused, i, calls) ==
    IF i > Len(bufs)
    THEN CreateAndBegin(bufs, active, queries, paused, calls)
    ELSE LET r == RefreshFenceStatus(bufs[i])
             k1 == calls \o <<Call("RefreshFenceStatus", i, bufs[i], r.cb)>>
             refreshed == [bufs EXCEPT ![i] = r.cb]
         IN  IF r.fault # "none"
             THEN Outcome(refreshed, active, paused, r.fault, k1)
             ELSE IF r.cb.state = "ReadyForBegin"
             THEN LET b == Begin(r.cb)
                      k2 == k1 \o <<Call("Begin", i, r.cb, b.cb)>>
                  IN  Outcome([bufs EXCEPT ![i] = b.cb], i, paused, b.fault, k2)
             ELSE IF r.cb.state # "Submitted"
             THEN Outcome(refreshed, active, paused, "PrepareForNewActiveCommandBuffer", k1)
             ELSE PrepareScan(refreshed, active, queries, paused, i + 1, k1)

\* CmdBufferManagerVulkan::PrepareForNewActiveCommandBuffer
PrepareForNewActiveSkipsFirst(bufs, active, queries, paused) ==
    PrepareScan(bufs, active, queries, paused, 2, <<>>)

PrepareForNewActive(bufs, active, queries, paused) ==
    PrepareScan(bufs, active, queries, paused, 1, <<>>)

\* CmdBufferManagerVulkan::WaitForCmdBuffer; `signaled` is what WaitForFence
\* returns: whether the fence was, or within the timeout became, signaled.
\* CmdBufferPoolVulkan::RefreshFenceStatus, from buffer i on; a failed
\* assertion ends the loop.
RECURSIVE PoolRefreshFenceStatus(_, _, _, _, _)
PoolRefreshFenceStatus(bufs, active, paused, skipCmdBuffer, i) ==
    IF i > Len(bufs) THEN Outcome(bufs, active, paused, "none", <<>>)
    ELSE IF i = skipCmdBuffer
    THEN PoolRefreshFenceStatus(bufs, active, paused, skipCmdBuffer, i + 1)
    ELSE LET r == RefreshFenceStatus(bufs[i])
             refreshed == [bufs EXCEPT ![i] = r.cb]
         IN  IF r.fault # "none"
             THEN Outcome(refreshed, active, paused, r.fault, <<>>)
             ELSE PoolRefreshFenceStatus(refreshed, active, paused, skipCmdBuffer, i + 1)

\* WaitForCmdBuffer without its first assertion.
WaitForAnyState(bufs, active, paused, i, signaled) ==
    IF ~signaled
    THEN Outcome(bufs, active, paused, "WaitForCmdBuffer: success", <<>>)
    ELSE LET c1 == [bufs[i] EXCEPT !.fence = TRUE]
             r == RefreshFenceStatus(c1)
         IN  Outcome([bufs EXCEPT ![i] = r.cb], active, paused, r.fault,
                     <<Call("RefreshFenceStatus", i, c1, r.cb)>>)

\* WaitForCmdBuffer without ASSERT(success): a timed-out wait goes on to refresh.
WaitForIgnoresTimeout(bufs, active, paused, i, signaled) ==
    IF ~IsSubmitted(bufs[i])
    THEN Outcome(bufs, active, paused, "WaitForCmdBuffer: IsSubmitted", <<>>)
    ELSE LET c1 == [bufs[i] EXCEPT !.fence = signaled]
             r == RefreshFenceStatus(c1)
         IN  Outcome([bufs EXCEPT ![i] = r.cb], active, paused, r.fault,
                     <<Call("RefreshFenceStatus", i, c1, r.cb)>>)

WaitFor(bufs, active, paused, i, signaled) ==
    IF ~IsSubmitted(bufs[i])
    THEN Outcome(bufs, active, paused, "WaitForCmdBuffer: IsSubmitted", <<>>)
    ELSE IF ~signaled
    THEN Outcome(bufs, active, paused, "WaitForCmdBuffer: success", <<>>)
    ELSE LET c1 == [bufs[i] EXCEPT !.fence = TRUE]
             r == RefreshFenceStatus(c1)
         IN  Outcome([bufs EXCEPT ![i] = r.cb], active, paused, r.fault,
                     <<Call("RefreshFenceStatus", i, c1, r.cb)>>)

\* -------------------------------------------------------------- actions
Running == fault = "none"

\* The record of an operation; `pool` is the pool it found, kept for the
\* manager's three handlers, and `active` the active buffer it found.
ManagerOps ==
    {"PrepareForNewActiveCommandBuffer", "SubmitActiveCmdBuffer", "WaitForCmdBuffer"}

Op(name, buf, arg, calls) ==
    [op |-> name, buf |-> buf, arg |-> arg,
     pool |-> IF name \in ManagerOps THEN CmdBuffers ELSE <<>>,
     active |-> ActiveCmdBuffer, calls |-> calls]

Apply(name, buf, arg, o) ==
    /\ CmdBuffers' = o.bufs
    /\ ActiveCmdBuffer' = o.active
    /\ interrupted' = o.paused
    /\ fault' = o.fault
    /\ last' = Op(name, buf, arg, o.calls)

\* The manager after construction, on a device where the debug-label
\* functions are loaded (labels) or not.
InitDevice(labels) ==
    /\ CmdBuffers = <<>>
    /\ ActiveCmdBuffer = 0
    /\ QueriesInProgress = <<>>
    /\ interrupted = {}
    /\ hasDebugUtils = labels
    /\ fault = "none"
    /\ last = [op |-> "Init", buf |-> 0, arg |-> "", pool |-> <<>>, active |-> 0,
               calls |-> <<>>]

\* Only BeginEvent and EndEvent read hasDebugUtils.
Init == InitDevice(TRUE)

InitEvents == \E labels \in BOOLEAN : InitDevice(labels)

PrepareForNewActiveCommandBuffer ==
    /\ Running
    /\ LET o == PrepareForNewActive(CmdBuffers, ActiveCmdBuffer, QueriesInProgress,
                                    interrupted)
       IN  /\ Len(o.bufs) <= MaxBuffers
           /\ Apply("PrepareForNewActiveCommandBuffer", o.active, "", o)
    /\ UNCHANGED <<QueriesInProgress, hasDebugUtils>>

SubmitActiveCmdBuffer ==
    /\ Running
    /\ \E signalSemaphore \in {NoSemaphore, "s1"} :
          Apply("SubmitActiveCmdBuffer", ActiveCmdBuffer, "",
                SubmitActive(CmdBuffers, ActiveCmdBuffer, QueriesInProgress,
                             interrupted, signalSemaphore))
    /\ UNCHANGED <<QueriesInProgress, hasDebugUtils>>

WaitForCmdBuffer ==
    /\ Running
    /\ \E i \in 1..Len(CmdBuffers) :
          \E signaled \in BOOLEAN :
             /\ CmdBuffers[i].fence => signaled
             /\ signaled /\ ~CmdBuffers[i].fence
                   => /\ CmdBuffers[i].state = "Submitted"
                      /\ CmdBuffers[i].FenceSignaledCounter < MaxFenceCount
             /\ Apply("WaitForCmdBuffer", i, signaled,
                      WaitFor(CmdBuffers, ActiveCmdBuffer, interrupted, i, signaled))
    /\ UNCHANGED <<QueriesInProgress, hasDebugUtils>>

\* The GPU finishes a submitted buffer and signals its fence.
FenceSignal ==
    /\ Running
    /\ \E i \in 1..Len(CmdBuffers) :
          /\ CmdBuffers[i].state = "Submitted"
          /\ ~CmdBuffers[i].fence
          /\ CmdBuffers[i].FenceSignaledCounter < MaxFenceCount
          /\ CmdBuffers' = [CmdBuffers EXCEPT ![i].fence = TRUE]
          /\ last' = Op("FenceSignal", i, "", <<>>)
    /\ UNCHANGED <<ActiveCmdBuffer, QueriesInProgress, interrupted, hasDebugUtils, fault>>

\* A method of the active buffer, called by the context that records into it.
OnActive(name, arg, r) ==
    /\ CmdBuffers' = [CmdBuffers EXCEPT ![ActiveCmdBuffer] = r.cb]
    /\ fault' = r.fault
    /\ last' = Op(name, ActiveCmdBuffer, arg,
                  <<Call(name, ActiveCmdBuffer, CmdBuffers[ActiveCmdBuffer], r.cb)>>)
    /\ UNCHANGED <<ActiveCmdBuffer, QueriesInProgress, interrupted, hasDebugUtils>>

ActiveBeginRenderPass ==
    /\ Running
    /\ ActiveCmdBuffer # 0
    /\ OnActive("BeginRenderPass", "", BeginRenderPass(CmdBuffers[ActiveCmdBuffer]))

ActiveEndRenderPass ==
    /\ Running
    /\ ActiveCmdBuffer # 0
    /\ OnActive("EndRenderPass", "", EndRenderPass(CmdBuffers[ActiveCmdBuffer]))

ActiveAddWaitSemaphore ==
    /\ Running
    /\ ActiveCmdBuffer # 0
    /\ Len(CmdBuffers[ActiveCmdBuffer].WaitFlags) < MaxWait
    /\ \E waitFlags \in StageFlags, waitSemaphore \in Semaphores :
          OnActive("AddWaitSemaphore", waitSemaphore,
                   AddWaitSemaphore(CmdBuffers[ActiveCmdBuffer], waitFlags, waitSemaphore))

\* Debug labels, on any buffer of the pool.
OnBuffer(name, i, cb) ==
    /\ CmdBuffers' = [CmdBuffers EXCEPT ![i] = cb]
    /\ last' = Op(name, i, "", <<Call(name, i, CmdBuffers[i], cb)>>)
    /\ UNCHANGED <<ActiveCmdBuffer, QueriesInProgress, interrupted, hasDebugUtils, fault>>

BufferBeginEvent ==
    /\ Running
    /\ \E i \in 1..Len(CmdBuffers) :
          /\ CmdBuffers[i].eventsBegin < MaxEvents
          /\ OnBuffer("BeginEvent", i, BeginEvent(CmdBuffers[i], hasDebugUtils))

BufferEndEvent ==
    /\ Running
    /\ \E i \in 1..Len(CmdBuffers) :
          /\ CmdBuffers[i].eventsBegin > -MaxEvents
          /\ OnBuffer("EndEvent", i, EndEvent(CmdBuffers[i], hasDebugUtils))

\* Begin, End, BeginRenderPass and EndRenderPass are public: a caller that holds
\* a buffer can call them on it in any state.
OnBufferResult(name, i, r) ==
    /\ CmdBuffers' = [CmdBuffers EXCEPT ![i] = r.cb]
    /\ fault' = r.fault
    /\ last' = Op(name, i, "", <<Call(name, i, CmdBuffers[i], r.cb)>>)
    /\ UNCHANGED <<ActiveCmdBuffer, QueriesInProgress, interrupted, hasDebugUtils>>

BufferBegin ==
    /\ Running
    /\ \E i \in 1..Len(CmdBuffers) : OnBufferResult("Begin", i, Begin(CmdBuffers[i]))

BufferEnd ==
    /\ Running
    /\ \E i \in 1..Len(CmdBuffers) : OnBufferResult("End", i, End(CmdBuffers[i]))

BufferBeginRenderPass ==
    /\ Running
    /\ \E i \in 1..Len(CmdBuffers) :
          OnBufferResult("BeginRenderPass", i, BeginRenderPass(CmdBuffers[i]))

BufferEndRenderPass ==
    /\ Running
    /\ \E i \in 1..Len(CmdBuffers) :
          OnBufferResult("EndRenderPass", i, EndRenderPass(CmdBuffers[i]))

\* CmdBufferManagerVulkan::OnQueryBegin, by a query that is not yet in progress
OnQueryBegin ==
    /\ Running
    /\ \E query \in Queries \ Range(QueriesInProgress) :
          /\ QueriesInProgress' = Append(QueriesInProgress, query)
          /\ last' = Op("OnQueryBegin", 0, query, <<>>)
    /\ UNCHANGED <<CmdBuffers, ActiveCmdBuffer, interrupted, hasDebugUtils, fault>>

\* CmdBufferManagerVulkan::OnQueryEnd; a query that has ended is paused no more
OnQueryEnd ==
    /\ Running
    /\ \E query \in Range(QueriesInProgress) :
          /\ QueriesInProgress' = RemoveFirst(QueriesInProgress, query)
          /\ interrupted' = interrupted \ {query}
          /\ last' = Op("OnQueryEnd", 0, query, <<>>)
    /\ UNCHANGED <<CmdBuffers, ActiveCmdBuffer, hasDebugUtils, fault>>

\* The buffer lifecycle: the manager's operations, the render passes of the
\* active buffer and the GPU signaling fences.
Lifecycle ==
    \/ PrepareForNewActiveCommandBuffer
    \/ SubmitActiveCmdBuffer
    \/ WaitForCmdBuffer
    \/ FenceSignal
    \/ ActiveBeginRenderPass
    \/ ActiveEndRenderPass

Next == Lifecycle

NextWait ==
    \/ Lifecycle
    \/ ActiveAddWaitSemaphore

NextEvents ==
    \/ Lifecycle
    \/ BufferBeginEvent
    \/ BufferEndEvent

NextQueries ==
    \/ Lifecycle
    \/ OnQueryBegin
    \/ OnQueryEnd

\* The manager's handlers and the four state-changing methods of a buffer,
\* called directly on any buffer of the pool.
BufferMethods ==
    \/ PrepareForNewActiveCommandBuffer
    \/ SubmitActiveCmdBuffer
    \/ WaitForCmdBuffer
    \/ FenceSignal
    \/ BufferBegin
    \/ BufferEnd
    \/ BufferBeginRenderPass
    \/ BufferEndRenderPass

NextDirect == BufferMethods

NextDirectQueries ==
    \/ BufferMethods
    \/ OnQueryBegin
    \/ OnQueryEnd

\* The lifecycle alone, and with the wait semaphores, the debug labels and the
\* timer queries: the three act on fields the lifecycle's guards never read.
Spec == Init /\ [][Next]_vars

SpecWait == Init /\ [][NextWait]_vars

SpecEvents == InitEvents /\ [][NextEvents]_vars

SpecQueries == Init /\ [][NextQueries]_vars

\* The buffer methods called directly, without and with the timer queries.
SpecDirect == Init /\ [][NextDirect]_vars

SpecDirectQueries == Init /\ [][NextDirectQueries]_vars

----------------------------------------------------------------------------
\* The frame loop, for the properties of infinite runs: the Prepare/Submit
\* cycle driven as intended (Prepare with no active buffer, Submit with one)
\* and the GPU signaling fences.  No condition in the code reads the counters
\* FenceSignaledCounter and SubmittedFenceCounter or the tallies, so these
\* steps apply the handlers and drop the counts, which would otherwise grow
\* for ever; `last` keeps the handler's name, the buffer it made active and the
\* largest number of buffers seen executing at once.
Forget(cb) ==
    [cb EXCEPT !.FenceSignaledCounter = 0, !.SubmittedFenceCounter = 0,
               !.acquired = 0, !.released = 0, !.submissions = 0]

Executing(bufs) ==
    {i \in 1..Len(bufs) : bufs[i].state = "Submitted" /\ ~bufs[i].fence}

LiveApply(name, o) ==
    /\ CmdBuffers' = [i \in 1..Len(o.bufs) |-> Forget(o.bufs[i])]
    /\ ActiveCmdBuffer' = o.active
    /\ interrupted' = o.paused
    /\ fault' = o.fault
    /\ last' = [op |-> name, buf |-> o.active,
                peak |-> IF Cardinality(Executing(o.bufs)) > last.peak
                         THEN Cardinality(Executing(o.bufs)) ELSE last.peak]
    /\ UNCHANGED <<QueriesInProgress, hasDebugUtils>>

InitLive ==
    /\ CmdBuffers = <<>>
    /\ ActiveCmdBuffer = 0
    /\ QueriesInProgress = <<>>
    /\ interrupted = {}
    /\ hasDebugUtils = TRUE
    /\ fault = "none"
    /\ last = [op |-> "Init", buf |-> 0, peak |-> 0]

LivePrepare ==
    /\ Running
    /\ ActiveCmdBuffer = 0
    /\ LET o == PrepareForNewActive(CmdBuffers, ActiveCmdBuffer, QueriesInProgress,
                                    interrupted)
       IN  /\ Len(o.bufs) <= MaxBuffers
           /\ LiveApply("PrepareForNewActiveCommandBuffer", o)

LiveSubmit ==
    /\ Running
    /\ ActiveCmdBuffer # 0
    /\ LiveApply("SubmitActiveCmdBuffer",
                 SubmitActive(CmdBuffers, ActiveCmdBuffer, QueriesInProgress,
                              interrupted, NoSemaphore))

LiveRenderPass ==
    /\ Running
    /\ ActiveCmdBuffer # 0
    /\ LET cb == CmdBuffers[ActiveCmdBuffer]
           r == IF IsInsideRenderPass(cb) THEN EndRenderPass(cb) ELSE BeginRenderPass(cb)
       IN  LiveApply(IF IsInsideRenderPass(cb) THEN "EndRenderPass" ELSE "BeginRenderPass",
                     Outcome([CmdBuffers EXCEPT ![ActiveCmdBuffer] = r.cb],
                             ActiveCmdBuffer, interrupted, r.fault, <<>>))

LiveFenceSignal(i) ==
    /\ Running
    /\ i <= Len(CmdBuffers)
    /\ CmdBuffers[i].state = "Submitted"
    /\ ~CmdBuffers[i].fence
    /\ CmdBuffers' = [CmdBuffers EXCEPT ![i].fence = TRUE]
    /\ last' = [last EXCEPT !.op = "FenceSignal", !.buf = i]
    /\ UNCHANGED <<ActiveCmdBuffer, QueriesInProgress, interrupted, hasDebugUtils, fault>>

LiveFenceSignals == \E i \in 1..MaxBuffers : LiveFenceSignal(i)

\* WaitForCmdBuffer on a buffer that is executing or has finished, with a wait
\* long enough for its fence to signal.
LiveWaitFor ==
    /\ Running
    /\ \E i \in 1..Len(CmdBuffers) :
          /\ IsSubmitted(CmdBuffers[i])
          /\ LiveApply("WaitForCmdBuffer",
                       WaitFor(CmdBuffers, ActiveCmdBuffer, interrupted, i, TRUE))

\* The pool-wide refresh, skipping the active buffer.
LivePoolRefresh ==
    /\ Running
    /\ CmdBuffers # <<>>
    /\ LiveApply("RefreshFenceStatus",
                 PoolRefreshFenceStatus(CmdBuffers, ActiveCmdBuffer, interrupted,
                                        ActiveCmdBuffer, 1))

LiveQueryBegin ==
    /\ Running
    /\ \E query \in Queries \ Range(QueriesInProgress) :
          QueriesInProgress' = Append(QueriesInProgress, query)
    /\ last' = [last EXCEPT !.op = "OnQueryBegin", !.buf = 0]
    /\ UNCHANGED <<CmdBuffers, ActiveCmdBuffer, interrupted, hasDebugUtils, fault>>

LiveQueryEnd ==
    /\ Running
    /\ \E query \in Range(QueriesInProgress) :
          /\ QueriesInProgress' = RemoveFirst(QueriesInProgress, query)
          /\ interrupted' = interrupted \ {query}
    /\ last' = [last EXCEPT !.op = "OnQueryEnd", !.buf = 0]
    /\ UNCHANGED <<CmdBuffers, ActiveCmdBuffer, hasDebugUtils, fault>>

NextLive ==
    \/ LivePrepare
    \/ LiveSubmit
    \/ LiveRenderPass
    \/ LiveFenceSignals
    \/ LiveWaitFor
    \/ LivePoolRefresh
    \/ LiveQueryBegin
    \/ LiveQueryEnd

\* Every submitted buffer's fence eventually signals, and the cycle keeps
\* being driven: a Prepare follows when there is no active buffer, a Submit
\* when there is one.  Waits, pool-wide refreshes, render passes and queries
\* may happen or not.
SpecLive ==
    /\ InitLive
    /\ [][NextLive]_vars
    /\ WF_vars(LivePrepare)
    /\ WF_vars(LiveSubmit)
    /\ \A i \in 1..MaxBuffers : WF_vars(LiveFenceSignal(i))

\* --------------------------------------------------------------- claims
Recording == {i \in 1..Len(CmdBuffers) : HasBegun(CmdBuffers[i])}

LastCalls == {last.calls[k] : k \in 1..Len(last.calls)}

IsPrepare == last.op = "PrepareForNewActiveCommandBuffer"

\* A buffer the scan of PrepareForNewActiveCommandBuffer takes for reuse.
Reusable(cb) == cb.state = "ReadyForBegin" \/ (cb.state = "Submitted" /\ cb.fence)

FirstReusable(pool) ==
    CHOOSE i \in 1..Len(pool) :
        /\ Reusable(pool[i])
        /\ \A j \in 1..(i - 1) : ~Reusable(pool[j])

\* C1: after any sequence of manager operations, render passes on the active
\* buffer and fence signals, at most one buffer of the pool is in IsInsideBegin
\* or IsInsideRenderPass.
C1_AtMostOneRecording == Cardinality(Recording) <= 1

\* C2: a PrepareForNewActiveCommandBuffer that returns leaves no query of the
\* in-progress set interrupted: each one that got Interrupt() at the submission
\* has got Resume(), whether the active buffer was reused or created.
C2_InterruptedQueriesResumed ==
    (IsPrepare /\ fault = "none")
        => \A q \in Range(QueriesInProgress) : q \notin interrupted

\* C3: AddWaitSemaphore with a semaphore already in WaitSemaphores fails and
\* leaves WaitSemaphores and WaitFlags as they were before the call.
C3_DuplicateLeavesListsUnchanged ==
    \A c \in LastCalls :
        (c.fn = "AddWaitSemaphore" /\ Contains(c.pre.WaitSemaphores, last.arg))
            => /\ fault # "none"
               /\ c.post.WaitSemaphores = c.pre.WaitSemaphores
               /\ c.post.WaitFlags = c.pre.WaitFlags

\* C4: in every reachable state, the one a rejected duplicate AddWaitSemaphore
\* leaves included, each buffer has as many WaitSemaphores as WaitFlags.
C4_WaitListsSameLength ==
    \A i \in 1..Len(CmdBuffers) :
        Len(CmdBuffers[i].WaitSemaphores) = Len(CmdBuffers[i].WaitFlags)

\* C5: _eventsBegin is never negative, and an EndEvent that finds no open span
\* (the counter at 0, or the buffer ended, which closed every span) leaves the
\* counter at 0.
C5_EventDepthNeverNegative ==
    /\ \A i \in 1..Len(CmdBuffers) : CmdBuffers[i].eventsBegin >= 0
    /\ \A c \in LastCalls :
          (c.fn = "EndEvent"
              /\ (c.pre.eventsBegin = 0 \/ c.pre.state \in {"HasEnded", "Submitted"}))
             => c.post.eventsBegin = 0

\* C6: a buffer handed to the queue by SubmitActiveCmdBuffer, End having run,
\* has _eventsBegin equal to 0.
C6_EventDepthZeroAtSubmit ==
    \A c \in LastCalls : c.fn = "Submit" => c.pre.eventsBegin = 0

\* C7: a buffer enters Submitted only from HasEnded, enters ReadyForBegin only
\* from Submitted in a RefreshFenceStatus that finds its fence signaled, and is
\* begun only by Begin from ReadyForBegin with its fence reset: never from
\* Submitted, where the fence of its last submission may still be unsignaled.
C7_TransitionsOrdered ==
    \A c \in LastCalls :
        /\ (c.post.state = "Submitted" /\ c.pre.state # "Submitted")
              => c.pre.state = "HasEnded"
        /\ (c.post.state = "ReadyForBegin" /\ c.pre.state # "ReadyForBegin")
              => (c.fn = "RefreshFenceStatus" /\ c.pre.state = "Submitted" /\ c.pre.fence)
        /\ (c.post.state = "IsInsideBegin" /\ ~HasBegun(c.pre))
              => (c.fn = "Begin" /\ c.pre.state = "ReadyForBegin" /\ ~c.pre.fence)

\* C7 witness: a buffer that was submitted and whose fence was seen signaled
\* has been begun again.
C7_Witness ==
    /\ IsPrepare
    /\ fault = "none"
    /\ \E c \in LastCalls :
          /\ c.fn = "RefreshFenceStatus"
          /\ c.buf = ActiveCmdBuffer
          /\ c.pre.state = "Submitted"
          /\ c.post.state = "ReadyForBegin"
    /\ CmdBuffers[ActiveCmdBuffer].state = "IsInsideBegin"

\* C8: RefreshFenceStatus on a Submitted buffer whose fence is signaled leaves it
\* ReadyForBegin with SubmittedWaitSemaphores empty, the fence reset and
\* FenceSignaledCounter one higher; with the fence unsignaled it changes nothing.
C8_RefreshFenceStatus ==
    \A c \in LastCalls :
        (c.fn = "RefreshFenceStatus" /\ c.pre.state = "Submitted")
            => IF c.pre.fence
               THEN /\ c.post.state = "ReadyForBegin"
                    /\ c.post.SubmittedWaitSemaphores = <<>>
                    /\ ~c.post.fence
                    /\ c.post.FenceSignaledCounter = c.pre.FenceSignaledCounter + 1
               ELSE c.post = c.pre

\* C8 witness: RefreshFenceStatus has run on a Submitted buffer with a signaled
\* fence and submitted wait semaphores, and in the same scan on one still executing.
C8_Witness ==
    /\ \E c \in LastCalls :
          /\ c.fn = "RefreshFenceStatus"
          /\ c.pre.state = "Submitted"
          /\ c.pre.fence
          /\ c.pre.SubmittedWaitSemaphores # <<>>
    /\ \E c \in LastCalls :
          /\ c.fn = "RefreshFenceStatus"
          /\ c.pre.state = "Submitted"
          /\ ~c.pre.fence

AllExecuting(pool) ==
    \A i \in 1..Len(pool) : pool[i].state = "Submitted" /\ ~pool[i].fence

\* C9: PrepareForNewActiveCommandBuffer on a pool whose buffers are all Submitted
\* with unsignaled fences (or on an empty pool) adds exactly one buffer, makes it
\* the active buffer in IsInsideBegin and changes no buffer that was there.
C9_PrepareCreates ==
    (IsPrepare /\ AllExecuting(last.pool))
        => /\ fault = "none"
           /\ Len(CmdBuffers) = Len(last.pool) + 1
           /\ ActiveCmdBuffer = Len(CmdBuffers)
           /\ CmdBuffers[ActiveCmdBuffer].state = "IsInsideBegin"
           /\ \A i \in 1..Len(last.pool) : CmdBuffers[i] = last.pool[i]

\* C9 witness: the pool held a buffer still executing and has grown by one.
C9_Witness ==
    /\ IsPrepare
    /\ Len(last.pool) >= 1
    /\ AllExecuting(last.pool)
    /\ Len(CmdBuffers) = Len(last.pool) + 1

\* C10 as claimed: whenever the pool holds a buffer that is ReadyForBegin or
\* Submitted with a signaled fence, PrepareForNewActiveCommandBuffer keeps the
\* pool size and makes the first such buffer the active one.
C10_PrepareReusesFirst_Original ==
    (IsPrepare /\ \E i \in 1..Len(last.pool) : Reusable(last.pool[i]))
        => /\ Len(CmdBuffers) = Len(last.pool)
           /\ ActiveCmdBuffer = FirstReusable(last.pool)
           /\ CmdBuffers[ActiveCmdBuffer].state = "IsInsideBegin"

\* C10 as amended: the same, when no buffer of the pool is being recorded, that
\* is when every buffer is ReadyForBegin or Submitted.
C10_PrepareReusesFirst ==
    (/\ IsPrepare
     /\ \A i \in 1..Len(last.pool) : last.pool[i].state \in {"ReadyForBegin", "Submitted"}
     /\ \E i \in 1..Len(last.pool) : Reusable(last.pool[i]))
        => /\ fault = "none"
           /\ Len(CmdBuffers) = Len(last.pool)
           /\ ActiveCmdBuffer = FirstReusable(last.pool)
           /\ CmdBuffers[ActiveCmdBuffer].state = "IsInsideBegin"

\* C10 witness: two buffers could be reused, one ReadyForBegin behind one whose
\* fence was signaled, and the first was taken.
C10_Witness ==
    /\ IsPrepare
    /\ Len(last.pool) >= 2
    /\ \A i \in 1..Len(last.pool) : Reusable(last.pool[i])
    /\ ActiveCmdBuffer = 1
    /\ Len(CmdBuffers) = Len(last.pool)

----------------------------------------------------------------------------
IsWaitFor == last.op = "WaitForCmdBuffer"

\* C11: WaitForCmdBuffer called on a buffer that is not Submitted fails with
\* the invalid-state error (its first assertion), never returns, and leaves
\* every buffer of the pool, that buffer's state, fence and counters among
\* them, as it found it.
C11_WaitForNotSubmitted ==
    IsWaitFor /\ ~IsSubmitted(last.pool[last.buf])
       => /\ fault = "WaitForCmdBuffer: IsSubmitted"
          /\ last.calls = <<>>
          /\ CmdBuffers = last.pool
          /\ ActiveCmdBuffer = last.active

\* WaitForCmdBuffer was called on a buffer that had completed a submission
\* earlier and is idle or being recorded again.
C11_Witness ==
    /\ IsWaitFor
    /\ ~IsSubmitted(last.pool[last.buf])
    /\ last.pool[last.buf].FenceSignaledCounter > 0
    /\ fault # "none"

\* C12: WaitForCmdBuffer called on a Submitted buffer either fails with the
\* timeout error, when the fence did not signal within the timeout, and leaves
\* the buffer Submitted and untouched, or returns with the buffer already
\* ReadyForBegin; it never returns with the buffer still Submitted.
C12_WaitForSubmitted ==
    IsWaitFor /\ IsSubmitted(last.pool[last.buf])
       => /\ last.arg
             => fault = "none" /\ CmdBuffers[last.buf].state = "ReadyForBegin"
          /\ ~last.arg
             => /\ fault = "WaitForCmdBuffer: success"
                /\ CmdBuffers = last.pool
          /\ fault = "none" => ~IsSubmitted(CmdBuffers[last.buf])

\* The wait saw the fence signal within the timeout, on a buffer whose fence
\* had not been seen signaled before, and returned.
C12_Witness ==
    /\ IsWaitFor
    /\ IsSubmitted(last.pool[last.buf])
    /\ ~last.pool[last.buf].fence
    /\ last.arg
    /\ fault = "none"
    /\ CmdBuffers[last.buf].state = "ReadyForBegin"

----------------------------------------------------------------------------
IsSubmit == last.op = "SubmitActiveCmdBuffer"

CallsNamed(fn) == {k \in 1..Len(last.calls) : last.calls[k].fn = fn}

\* C13: SubmitActiveCmdBuffer called with an active buffer always returns, and
\* when it has returned there is no active buffer.  An active buffer that was
\* IsInsideBegin or IsInsideRenderPass is now Submitted, by one queue
\* submission that follows End, and an open render pass was closed before End.
\* An active buffer that had not begun, had ended or was already Submitted is
\* unchanged, and no call was made for it: no End, no queue submission and no
\* query Interrupt.  No other buffer of the pool is touched.
C13_SubmitClearsActive ==
    IsSubmit
       => /\ last.active # 0 => fault = "none"
          /\ fault = "none"
                => /\ last.active # 0
                   /\ ActiveCmdBuffer = 0
                   /\ LET pre == last.pool[last.active]
                          post == CmdBuffers[last.active]
                      IN  /\ HasBegun(pre)
                                => /\ post.state = "Submitted"
                                   /\ Cardinality(CallsNamed("Submit")) = 1
                                   /\ \A k \in CallsNamed("End") :
                                         /\ last.calls[k].pre.state = "IsInsideBegin"
                                         /\ CallsNamed("Submit") = {k + 1}
                                   /\ IsInsideRenderPass(pre)
                                         => /\ last.calls[1].fn = "EndRenderPass"
                                            /\ last.calls[1].pre = pre
                          /\ ~HasBegun(pre)
                                => /\ post = pre
                                   /\ last.calls = <<>>
                   /\ \A i \in 1..Len(last.pool) :
                         i # last.active => CmdBuffers[i] = last.pool[i]
                   /\ Len(CmdBuffers) = Len(last.pool)

\* SubmitActiveCmdBuffer returned for an active buffer that had been ended by
\* a direct End call, while a timer query was in progress.
C13_Witness ==
    /\ IsSubmit
    /\ fault = "none"
    /\ last.active # 0
    /\ last.pool[last.active].state = "HasEnded"
    /\ QueriesInProgress # <<>>

----------------------------------------------------------------------------
\* A call of one of the four methods outside the state it requires.
OutOfState(c) ==
    \/ c.fn = "Begin" /\ c.pre.state # "ReadyForBegin"
    \/ c.fn \in {"End", "BeginRenderPass"} /\ IsInsideRenderPass(c.pre)
    \/ c.fn = "EndRenderPass" /\ ~IsInsideRenderPass(c.pre)

\* C16: a call of Begin on a buffer that is not ReadyForBegin, of End or
\* BeginRenderPass on a buffer inside a render pass, or of EndRenderPass on a
\* buffer not inside a render pass fails with that method's invalid-state
\* error, is the last thing its handler does and leaves the buffer as it was.
\* End called on a ReadyForBegin, HasEnded or Submitted buffer fails the same
\* way: it never moves such a buffer to HasEnded.
C16_OutOfStateCallsFail ==
    \A k \in 1..Len(last.calls) :
       LET c == last.calls[k]
       IN  /\ OutOfState(c)
                => fault = c.fn /\ k = Len(last.calls) /\ c.post = c.pre
           /\ c.fn = "End" /\ c.pre.state \in {"ReadyForBegin", "HasEnded", "Submitted"}
                => /\ fault = "End"
                   /\ c.post = c.pre
                   /\ CmdBuffers[c.buf] = c.pre

\* End was called on a buffer that the queue is executing.
C16_Witness ==
    /\ last.op = "End"
    /\ last.calls[1].pre.state = "Submitted"
    /\ fault = "End"

----------------------------------------------------------------------------
\* The buffers that hold a descriptor pool set.
Holders == {i \in 1..Len(CmdBuffers) : CmdBuffers[i].poolSet}

\* C14 as stated: the only buffer that holds a descriptor pool set is the
\* active buffer, and no two buffers hold one at the same time.
C14_OnlyActiveHoldsLease_Original ==
    /\ \A i \in Holders : i = ActiveCmdBuffer
    /\ Cardinality(Holders) <= 1

\* C14, amended: the buffers that hold a descriptor pool set are exactly those
\* that are not ReadyForBegin.  A buffer takes its set in Begin and keeps it
\* while it is recorded, ended and Submitted, until RefreshFenceStatus sees its
\* fence signaled; a ReadyForBegin buffer holds none.
C14_HoldersAreNotReady ==
    \A i \in 1..Len(CmdBuffers) :
       CmdBuffers[i].poolSet <=> CmdBuffers[i].state # "ReadyForBegin"

\* A Submitted buffer and the active buffer hold a set each.
C14_Witness ==
    /\ ActiveCmdBuffer # 0
    /\ CmdBuffers[ActiveCmdBuffer].poolSet
    /\ \E i \in Holders : CmdBuffers[i].state = "Submitted"

----------------------------------------------------------------------------
----------------------------------------------------------------------------
\* C17: in every state the manager's operations and the GPU's fence signals
\* reach, a buffer that is not Submitted has an unsignaled fence; every
\* RefreshFenceStatus call on a buffer that is not Submitted finds the fence
\* unsignaled, and the assertion of that branch never fails.
C17_FenceSignaledOnlyWhileSubmitted ==
    /\ \A i \in 1..Len(CmdBuffers) :
          CmdBuffers[i].state # "Submitted" => ~CmdBuffers[i].fence
    /\ \A c \in LastCalls :
          c.fn = "RefreshFenceStatus" /\ c.pre.state # "Submitted" => ~c.pre.fence
    /\ fault # "RefreshFenceStatus"

\* The pool scan refreshed a buffer that is not Submitted and whose fence had
\* signaled for an earlier submission.
C17_Witness ==
    /\ IsPrepare
    /\ fault = "none"
    /\ \E c \in LastCalls :
          /\ c.fn = "RefreshFenceStatus"
          /\ c.pre.state # "Submitted"
          /\ c.pre.FenceSignaledCounter > 0

----------------------------------------------------------------------------
\* C18: a PrepareForNewActiveCommandBuffer called with no active buffer finds
\* every buffer it scans ReadyForBegin or Submitted, so the scan loop's
\* assertion does not fail; one called while the active buffer is still being
\* recorded fails that assertion and leaves no second recording buffer.
C18_ScanAssertion ==
    IsPrepare
       => /\ last.active = 0
                => /\ fault # "PrepareForNewActiveCommandBuffer"
                   /\ \A c \in LastCalls :
                         c.fn = "RefreshFenceStatus"
                            => c.post.state \in {"ReadyForBegin", "Submitted"}
          /\ last.active # 0 /\ HasBegun(last.pool[last.active])
                => /\ fault = "PrepareForNewActiveCommandBuffer"
                   /\ Cardinality(Recording) <= 1

----------------------------------------------------------------------------
\* C19: FenceSignaledCounter changes only in a RefreshFenceStatus call that
\* moves the buffer from Submitted to ReadyForBegin, and then by exactly one,
\* so it never decreases.  In every state it is the number of the buffer's
\* queue submissions less the one still executing, if the buffer is Submitted:
\* the number of its submissions seen complete, never more than the number of
\* times it was submitted.
C19_FenceSignaledCounter ==
    /\ \A c \in LastCalls :
          /\ c.post.FenceSignaledCounter >= c.pre.FenceSignaledCounter
          /\ c.post.FenceSignaledCounter # c.pre.FenceSignaledCounter
                => /\ c.fn = "RefreshFenceStatus"
                   /\ c.pre.state = "Submitted"
                   /\ c.post.state = "ReadyForBegin"
                   /\ c.post.FenceSignaledCounter = c.pre.FenceSignaledCounter + 1
          /\ c.fn = "RefreshFenceStatus" /\ c.pre.state = "Submitted"
                /\ c.post.state = "ReadyForBegin"
                => c.post.FenceSignaledCounter = c.pre.FenceSignaledCounter + 1
    /\ \A i \in 1..Len(CmdBuffers) :
          LET cb == CmdBuffers[i]
          IN  /\ cb.FenceSignaledCounter <= cb.submissions
              /\ cb.FenceSignaledCounter
                    = cb.submissions - (IF cb.state = "Submitted" THEN 1 ELSE 0)
    /\ last.op \in ManagerOps
          => \A i \in 1..Len(last.pool) :
                CmdBuffers[i].FenceSignaledCounter >= last.pool[i].FenceSignaledCounter

\* A buffer whose first submission was seen complete is executing its second.
C19_Witness ==
    \E i \in 1..Len(CmdBuffers) :
       /\ CmdBuffers[i].state = "Submitted"
       /\ CmdBuffers[i].submissions = 2
       /\ CmdBuffers[i].FenceSignaledCounter = 1

----------------------------------------------------------------------------
IsSubmittedAt(i) == i <= Len(CmdBuffers) /\ CmdBuffers[i].state = "Submitted"

IsBegunAt(i) == i <= Len(CmdBuffers) /\ HasBegun(CmdBuffers[i])

\* The pool holds at most one buffer more than were ever executing at once.
PoolWithinPeak == Len(CmdBuffers) <= last.peak + 1

====
